---- MODULE Spec2Model ----
(***************************************************************************)
(* A model of src/core/observer/watcher.js (Vue 2.1.7): the Watcher class  *)
(* (constructor, get, addDep, cleanupDeps, update, run, evaluate, depend,  *)
(* teardown) and the deep traversal (traverse / _traverse).                *)
(*                                                                         *)
(* Spec: one watcher with any options; PairSpec: two watchers and the      *)
(* flush order; NestSpec: two watchers whose getters call evaluate() and   *)
(* depend() of each other; UserSpec: one watcher whose callback throws;    *)
(* TraverseSpec: traverse() applied to arbitrary small heaps.              *)
(*                                                                         *)
(* Watchers are objects in slots 1..MaxWatchers, allocated in construction *)
(* order.  Publishers (Dep objects) are the reactive properties of a small *)
(* heap: cell 1 is the property vm.a of the bound context, every object o  *)
(* of Objs owns one reactive property, cell o, and EmptyObj is an          *)
(* instrumented object without properties.  The getter of a                *)
(* watcher is user code: while a get() frame is on top of the call stack   *)
(* it reads any cells in any order (Read), and then returns any value      *)
(* (GetReturn) or throws (GetThrow).                                       *)
(*                                                                         *)
(* Dep, pushTarget/popTarget, queueWatcher and the utilities remove and    *)
(* isObject are imported by watcher.js from files that are not part of the *)
(* source at hand; they are modelled from their contract in spec.md.       *)
(***************************************************************************)
EXTENDS Integers, Sequences, FiniteSets, TLC

\* ---------------------------------------------------------------- bounds
\* the watchers PairSpec constructs
MaxWatchers == 2
\* the watchers Spec constructs
SoloWatchers == 1
\* the reactive properties (publishers)
NumCells == 2
\* a getter may throw while targetStack is shorter than this: every throw leaves
\* its watcher in Dep.target, and the next pushTarget moves it to targetStack
MaxLeak == 1

Slots == 1..MaxWatchers
Cells == 1..NumCells
Objs == 2..NumCells
NoWatcher == 0
EmptyObj == 0

\* ---------------------------------------------------------------- values
UndefV == [t |-> "undef", id |-> 0]
PrimV(n) == [t |-> "prim", id |-> n]
ObjV(o) == [t |-> "obj", id |-> o]
ObjVals == {ObjV(o) : o \in Objs \cup {EmptyObj}}
\* what a getter may return
RetVals == {UndefV, PrimV(1)} \cup ObjVals
\* what a reactive property may hold
CellVals(c) == IF c = 1 THEN {PrimV(1)} \cup ObjVals
               ELSE {PrimV(1)} \cup {ObjV(o) : o \in Objs}

isObject(v) == v.t = "obj"
isExtensible(v) == TRUE
HasOb(v) == v.t = "obj"
ObDepId(v) == v.id
Keys(v) == IF v.id = EmptyObj THEN <<>> ELSE <<v.id>>

\* ---------------------------------------------------------------- utilities
Range(s) == {s[i] : i \in DOMAIN s}

RECURSIVE IndexFrom(_, _, _)
IndexFrom(arr, item, i) ==
    IF i > Len(arr) THEN 0
    ELSE IF arr[i] = item THEN i
    ELSE IndexFrom(arr, item, i + 1)

\* util remove(arr, item): splice out the first occurrence, if any
remove(arr, item) ==
    LET k == IndexFrom(arr, item, 1)
    IN IF k = 0 THEN arr
       ELSE [j \in 1..(Len(arr) - 1) |-> IF j < k THEN arr[j] ELSE arr[j + 1]]

\* ---------------------------------------------------------------- Dep
addSub(S, c, w) == [S EXCEPT ![c] = Append(@, w)]
removeSub(S, c, w) == [S EXCEPT ![c] = remove(@, w)]

\* ---------------------------------------------------------------- Watcher
NewWatcher ==
    [made |-> FALSE, id |-> 0, deep |-> FALSE, user |-> FALSE, lazy |-> FALSE,
     sync |-> FALSE, active |-> FALSE, dirty |-> FALSE, deps |-> <<>>,
     newDeps |-> <<>>, depIds |-> {}, newDepIds |-> {}, value |-> UndefV]

\* mutant of addDep: the test of depIds is missing
addDep_NoDepIdsTest(st, w, c) ==
    IF c \notin st.W[w].newDepIds
    THEN [W |-> [st.W EXCEPT ![w].newDepIds = @ \cup {c},
                             ![w].newDeps = Append(@, c)],
          S |-> addSub(st.S, c, w)]
    ELSE st

\* addDep(dep) on watcher w; st is the pair (watchers, registries)
addDep(st, w, c) ==
    IF c \notin st.W[w].newDepIds
    THEN [W |-> [st.W EXCEPT ![w].newDepIds = @ \cup {c},
                             ![w].newDeps = Append(@, c)],
          S |-> IF c \notin st.W[w].depIds THEN addSub(st.S, c, w) ELSE st.S]
    ELSE st

\* Dep.depend(): register with the watcher on top of the target stack, if any
depend(st, c, tgt) == IF tgt # NoWatcher THEN addDep(st, tgt, c) ELSE st

RECURSIVE dependAll(_, _, _)
dependAll(st, cs, tgt) ==
    IF cs = <<>> THEN st
    ELSE dependAll(depend(st, Head(cs), tgt), Tail(cs), tgt)

\* the while (i--) loop of cleanupDeps
RECURSIVE cleanupLoop(_, _, _, _, _)
cleanupLoop(S, deps, i, newDepIds, w) ==
    IF i = 0 THEN S
    ELSE cleanupLoop(IF deps[i] \notin newDepIds THEN removeSub(S, deps[i], w) ELSE S,
                     deps, i - 1, newDepIds, w)

cleanupDeps(st, w) ==
    LET x == st.W[w]
    IN [W |-> [st.W EXCEPT ![w].depIds = x.newDepIds,
                           ![w].newDepIds = {},
                           ![w].deps = x.newDeps,
                           ![w].newDeps = <<>>],
        S |-> cleanupLoop(st.S, x.deps, Len(x.deps), x.newDepIds, w)]

\* ---------------------------------------------------------------- traverse
\* A heap is a record: val[c] is the value of property c, keys[o] the property names
\* of object o (Object.keys), ob[o] whether o carries __ob__, ext[o] whether o is
\* extensible.  An array is walked like an object whose keys are its indices.

\* the objects of the bound context: all instrumented and extensible
VmObjs == Objs \cup {EmptyObj}
VmHeap(cells) ==
    [val |-> cells,
     keys |-> [o \in VmObjs |-> Keys(ObjV(o))],
     ob |-> [o \in VmObjs |-> HasOb(ObjV(o))],
     ext |-> [o \in VmObjs |-> isExtensible(ObjV(o))]]

\* the objects of the heaps traverse() is applied to on its own
MaxNodes == 3
Nodes == 1..MaxNodes
NodeKeys(o) == IF o = 1 THEN <<1, 2>> ELSE <<o + 1>>
NodeCells == 1..(MaxNodes + 1)
\* the calls of _traverse the engine's call stack holds: a walk of a heap in which
\* every cycle passes through an instrumented object nests less deeply
MaxDepth == (MaxNodes + 1) * (MaxNodes + 1)

\* the result of a walk: the ids recorded in seen, the properties read and the
\* values whose properties were iterated, in order; over: the call stack overflowed
Walked(seen) == [seen |-> seen, touched |-> <<>>, walked |-> <<>>, over |-> FALSE]
Overflow(seen) == [seen |-> seen, touched |-> <<>>, walked |-> <<>>, over |-> TRUE]

RECURSIVE _traverse(_, _, _, _)
RECURSIVE traverseKeys(_, _, _, _, _)

\* mutant of _traverse: an object already seen is walked again
_traverse_Unpruned(val, seen, heap, depth) ==
    IF depth = 0 THEN Overflow(seen)
    ELSE IF ~isObject(val) \/ ~heap.ext[val.id] THEN Walked(seen)
    ELSE LET r == traverseKeys(heap.keys[val.id], Len(heap.keys[val.id]),
                               IF heap.ob[val.id] THEN seen \cup {ObDepId(val)}
                               ELSE seen, heap, depth - 1)
         IN [r EXCEPT !.walked = <<val>> \o @]

\* _traverse(val, seen) with depth calls left on the call stack
_traverse(val, seen, heap, depth) ==
    IF depth = 0 THEN Overflow(seen)
    ELSE IF ~isObject(val) \/ ~heap.ext[val.id] THEN Walked(seen)
    ELSE IF heap.ob[val.id] /\ ObDepId(val) \in seen THEN Walked(seen)
    ELSE LET r == traverseKeys(heap.keys[val.id], Len(heap.keys[val.id]),
                               IF heap.ob[val.id] THEN seen \cup {ObDepId(val)}
                               ELSE seen, heap, depth - 1)
         IN [r EXCEPT !.walked = <<val>> \o @]

\* while (i--) _traverse(val[keys[i]], seen): reading val[keys[i]] touches the
\* property; an overflow ends the walk
traverseKeys(keys, i, seen, heap, depth) ==
    IF i = 0 THEN Walked(seen)
    ELSE LET c == keys[i]
             r == _traverse(heap.val[c], seen, heap, depth)
         IN IF r.over THEN [r EXCEPT !.touched = <<c>> \o @]
            ELSE LET rest == traverseKeys(keys, i - 1, r.seen, heap, depth)
                 IN [seen |-> rest.seen,
                     touched |-> <<c>> \o r.touched \o rest.touched,
                     walked |-> r.walked \o rest.walked,
                     over |-> rest.over]

\* traverse(val): seenObjects.clear(), then the walk
traverseAll(val, heap) == _traverse(val, {}, heap, MaxDepth)
traverse(val, heap) == traverseAll(val, heap).touched


\* ---------------------------------------------------------------- state
VARIABLES
    uid,              \* the module-level counter of watcher ids
    watcher,          \* slot -> the fields of the Watcher object in it
    subs,             \* cell -> Dep.subs, the registry of the cell's publisher
    target,           \* Dep.target, the watcher being evaluated (NoWatcher: none)
    targetStack,      \* the stack behind pushTarget / popTarget
    vmWatchers,       \* vm._watchers
    isBeingDestroyed, \* vm._isBeingDestroyed
    cell,             \* the heap: the value of every reactive property
    queue,            \* the scheduler's queue
    stack,            \* the call stack: get(), Dep.notify() and flush frames
    lastReads,        \* slot -> the cells read in its latest evaluation (observation)
    walk,             \* a heap, and the latest traverse() of it on its own
    ev                \* what the last step did (observation)

vars == <<uid, watcher, subs, target, targetStack, vmWatchers, isBeingDestroyed,
          cell, queue, stack, lastReads, walk, ev>>

GetFrame(w, by) ==
    [k |-> "get", w |-> w, by |-> by, reads |-> {}, pend |-> <<>>, ran |-> {}]
NotifyFrame(pend) ==
    [k |-> "notify", w |-> NoWatcher, by |-> "", reads |-> {}, pend |-> pend, ran |-> {}]
FlushFrame ==
    [k |-> "flush", w |-> NoWatcher, by |-> "", reads |-> {}, pend |-> <<>>, ran |-> {}]

\* op: what was done to watcher w; by: the caller of get(), or how update()
\* dispatched; reads, prev: the cells read in the evaluation that returned and in the
\* one before; val: the value get() returned; stored: this.value before the step;
\* cb, cbNew, cbOld: whether the callback was called, and with what; pre: whether
\* the watcher was dirty (return), queued (update) or active (teardown) before the
\* step, or whether the flush had to reorder the queue; for teardown, reads are the
\* cells whose removeSub was called and cb tells whether remove(vm._watchers, this)
\* was called;
\* inner: the watchers whose get() was called, and returned, inside the evaluation
\* that returned (for depend: whether a get() was in progress);
\* err: what the callback threw; config: the configuration then; handled: what
\* config.errorHandler was called with; warned: whether warn() was called; thrown:
\* what run() threw to its caller
NoError == "none"
NoCall == <<>>
NoConfig == [errorHandler |-> FALSE, production |-> FALSE]
Event(op, w, by) ==
    [op |-> op, w |-> w, by |-> by, reads |-> {}, prev |-> {}, val |-> UndefV,
     stored |-> UndefV, cb |-> FALSE, cbNew |-> UndefV, cbOld |-> UndefV,
     pre |-> FALSE, err |-> NoError, config |-> NoConfig, handled |-> NoCall,
     warned |-> FALSE, thrown |-> NoError, inner |-> {}]

Top == stack[Len(stack)]
Pop(stk) == SubSeq(stk, 1, Len(stk) - 1)
InGet == stack # <<>> /\ Top.k = "get"
Idle == stack = <<>>
Made == {w \in Slots : watcher[w].made}

\* frames whose loop has nothing left return to their caller
RECURSIVE Settle(_, _)
Settle(stk, q) ==
    IF stk = <<>> THEN stk
    ELSE LET f == stk[Len(stk)]
         IN IF (f.k = "notify" /\ f.pend = <<>>) \/ (f.k = "flush" /\ q = <<>>)
            THEN Settle(Pop(stk), q)
            ELSE stk

\* pushTarget / popTarget on the pair (Dep.target, targetStack)
pushTarget(T, w) ==
    [cur |-> w, stk |-> IF T.cur # NoWatcher THEN Append(T.stk, T.cur) ELSE T.stk]
popTarget(T) ==
    IF T.stk = <<>> THEN [cur |-> NoWatcher, stk |-> <<>>]
    ELSE [cur |-> T.stk[Len(T.stk)], stk |-> SubSeq(T.stk, 1, Len(T.stk) - 1)]

\* queueWatcher: de-duplicated by watcher
queueWatcher(q, w) == IF w \in Range(q) THEN q ELSE Append(q, w)

RECURSIVE InsertById(_, _, _)
InsertById(q, w, W) ==
    IF q = <<>> THEN <<w>>
    ELSE IF W[w].id < W[Head(q)].id THEN <<w>> \o q
    ELSE <<Head(q)>> \o InsertById(Tail(q), w, W)

RECURSIVE SortById(_, _)
SortById(q, W) ==
    IF q = <<>> THEN <<>>
    ELSE InsertById(SortById(Tail(q), W), Head(q), W)

\* no heap to walk: traverse() is called by get() only
NoWalk == [heap |-> VmHeap(<<>>), root |-> UndefV, res |-> Walked({}), done |-> FALSE]

Init ==
    /\ uid = 0
    /\ watcher = [w \in Slots |-> NewWatcher]
    /\ subs = [c \in Cells |-> <<>>]
    /\ target = NoWatcher
    /\ targetStack = <<>>
    /\ vmWatchers = <<>>
    /\ isBeingDestroyed = FALSE
    /\ cell = [c \in Cells |-> IF c = 1 THEN ObjV(2) ELSE PrimV(1)]
    /\ queue = <<>>
    /\ stack = <<>>
    /\ lastReads = [w \in Slots |-> {}]
    /\ walk = NoWalk
    /\ ev = Event("none", NoWatcher, "")

\* ---------------------------------------------------------------- constructor
OptionSets ==
    {o \in [deep : BOOLEAN, user : {FALSE}, lazy : BOOLEAN, sync : BOOLEAN] :
        o.deep => ~o.lazy /\ ~o.sync}

\* mutant of Constructed: the id is taken without counting
Constructed_SameId(opts, newUid) ==
    [NewWatcher EXCEPT !.made = TRUE, !.deep = opts.deep, !.user = opts.user,
                       !.lazy = opts.lazy, !.sync = opts.sync, !.id = 1,
                       !.active = TRUE, !.dirty = opts.lazy]

\* the fields the constructor assigns before it evaluates
Constructed(opts, newUid) ==
    [NewWatcher EXCEPT !.made = TRUE, !.deep = opts.deep, !.user = opts.user,
                       !.lazy = opts.lazy, !.sync = opts.sync, !.id = newUid,
                       !.active = TRUE, !.dirty = opts.lazy]

\* new Watcher(vm, expOrFn, cb, options); a non-lazy watcher enters get()
Construct(opts, max) ==
    /\ Idle
    /\ Cardinality(Made) < max
    /\ LET w == Cardinality(Made) + 1
           T == pushTarget([cur |-> target, stk |-> targetStack], w)
       IN /\ uid' = uid + 1
          /\ watcher' = [watcher EXCEPT ![w] = Constructed(opts, uid + 1)]
          /\ vmWatchers' = Append(vmWatchers, w)
          /\ IF opts.lazy
             THEN UNCHANGED <<target, targetStack, stack>>
             ELSE /\ target' = T.cur
                  /\ targetStack' = T.stk
                  /\ stack' = Append(stack, GetFrame(w, "ctor"))
          /\ ev' = Event("none", NoWatcher, "")
    /\ UNCHANGED <<walk, lastReads, subs, isBeingDestroyed, cell, queue>>

\* ---------------------------------------------------------------- get
\* the getter reads cell c: the reactive getter of the cell calls dep.depend()
Read(c) ==
    /\ InGet
    /\ LET st == depend([W |-> watcher, S |-> subs], c, target)
       IN /\ watcher' = st.W
          /\ subs' = st.S
    /\ stack' = IF InGet /\ target = Top.w
                THEN [stack EXCEPT ![Len(stack)].reads = @ \cup {c}]
                ELSE stack
    /\ ev' = Event("none", NoWatcher, "")
    /\ UNCHANGED <<walk, lastReads, uid, target, targetStack, vmWatchers, isBeingDestroyed,
                   cell, queue>>

\* mutant of runAfterGet: an unchanged object no longer fires the callback
runAfterGet_NoObjectTest(W, w, value) ==
    IF value # W[w].value \/ W[w].deep
    THEN LET oldValue == W[w].value
         IN [W |-> [W EXCEPT ![w].value = value], cb |-> TRUE,
             cbNew |-> value, cbOld |-> oldValue]
    ELSE [W |-> W, cb |-> FALSE, cbNew |-> UndefV, cbOld |-> UndefV]

\* run(), after get() returned value: the test and the callback
runAfterGet(W, w, value) ==
    IF value # W[w].value \/ isObject(value) \/ W[w].deep
    THEN LET oldValue == W[w].value
         IN [W |-> [W EXCEPT ![w].value = value], cb |-> TRUE,
             cbNew |-> value, cbOld |-> oldValue]
    ELSE [W |-> W, cb |-> FALSE, cbNew |-> UndefV, cbOld |-> UndefV]

\* mutant of afterGet: evaluate() forgets to clear dirty
afterGet_KeepDirty(W, w, by, value) ==
    IF by = "run" THEN runAfterGet(W, w, value)
    ELSE [W |-> [W EXCEPT ![w].value = value], cb |-> FALSE,
          cbNew |-> UndefV, cbOld |-> UndefV]

\* the caller of get() goes on with the value
afterGet(W, w, by, value) ==
    IF by = "run" THEN runAfterGet(W, w, value)
    ELSE IF by = "evaluate"
    THEN [W |-> [W EXCEPT ![w].value = value, ![w].dirty = FALSE], cb |-> FALSE,
          cbNew |-> UndefV, cbOld |-> UndefV]
    ELSE [W |-> [W EXCEPT ![w].value = value], cb |-> FALSE,
          cbNew |-> UndefV, cbOld |-> UndefV]

\* get() of w returned into the activation on top of stk: a getter that called
\* evaluate() of w goes on
ReturnTo(stk, w) ==
    IF stk # <<>> /\ stk[Len(stk)].k = "get"
    THEN [stk EXCEPT ![Len(stk)].ran = @ \cup {w}]
    ELSE stk

\* the getter returns value: deep traversal, popTarget, cleanupDeps, then the caller
GetReturn(value) ==
    /\ InGet
    /\ LET f == Top
           w == f.w
           touched == IF watcher[w].deep THEN traverse(value, VmHeap(cell)) ELSE <<>>
           st1 == dependAll([W |-> watcher, S |-> subs], touched, target)
           reads == IF target = w THEN f.reads \cup Range(touched) ELSE f.reads
           T == popTarget([cur |-> target, stk |-> targetStack])
           st2 == cleanupDeps(st1, w)
           r == afterGet(st2.W, w, f.by, value)
       IN /\ watcher' = r.W
          /\ subs' = st2.S
          /\ target' = T.cur
          /\ targetStack' = T.stk
          /\ stack' = Settle(ReturnTo(Pop(stack), w), queue)
          /\ lastReads' = [lastReads EXCEPT ![w] = reads]
          /\ ev' = [Event("return", w, f.by) EXCEPT
                       !.reads = reads, !.prev = lastReads[w], !.val = value,
                       !.stored = watcher[w].value, !.pre = watcher[w].dirty,
                       !.cb = r.cb,
                       !.cbNew = r.cbNew, !.cbOld = r.cbOld, !.inner = f.ran]
    /\ UNCHANGED <<walk, uid, vmWatchers, isBeingDestroyed, cell, queue>>

\* what the callback may throw
Errors == {"e1", "e2"}
\* the configurations: config.errorHandler set or not, production build or not
Configs == [errorHandler : BOOLEAN, production : BOOLEAN]

\* mutant of cbThrew: a guarded watcher swallows the error without a handler too
cbThrew_Swallowed(W, w, e, config) ==
    IF W[w].user
    THEN IF config.errorHandler
         THEN [handled |-> <<e, "vm">>, warned |-> FALSE, thrown |-> NoError]
         ELSE [handled |-> NoCall, warned |-> ~config.production, thrown |-> NoError]
    ELSE [handled |-> NoCall, warned |-> FALSE, thrown |-> e]

\* run(), when this.cb.call(this.vm, value, oldValue) throws e
cbThrew(W, w, e, config) ==
    IF W[w].user
    THEN IF config.errorHandler
         THEN [handled |-> <<e, "vm">>, warned |-> FALSE, thrown |-> NoError]
         ELSE [handled |-> NoCall, warned |-> ~config.production, thrown |-> e]
    ELSE [handled |-> NoCall, warned |-> FALSE, thrown |-> e]

\* the getter returns value to run(), and the callback, which is called, throws e:
\* as GetReturn up to the callback; an error that leaves run() leaves every caller
\* (Dep.notify, the flush), none of which has a handler
GetReturnCbThrows(value, e, config) ==
    /\ InGet
    /\ Top.by = "run"
    /\ LET f == Top
           w == f.w
           touched == IF watcher[w].deep THEN traverse(value, VmHeap(cell)) ELSE <<>>
           st1 == dependAll([W |-> watcher, S |-> subs], touched, target)
           reads == IF target = w THEN f.reads \cup Range(touched) ELSE f.reads
           T == popTarget([cur |-> target, stk |-> targetStack])
           st2 == cleanupDeps(st1, w)
           r == runAfterGet(st2.W, w, value)
           x == cbThrew(r.W, w, e, config)
       IN /\ r.cb
          /\ watcher' = r.W
          /\ subs' = st2.S
          /\ target' = T.cur
          /\ targetStack' = T.stk
          /\ stack' = IF x.thrown = NoError THEN Settle(Pop(stack), queue) ELSE <<>>
          /\ lastReads' = [lastReads EXCEPT ![w] = reads]
          /\ ev' = [Event("return", w, f.by) EXCEPT
                       !.reads = reads, !.prev = lastReads[w], !.val = value,
                       !.stored = watcher[w].value, !.pre = watcher[w].dirty,
                       !.cb = r.cb, !.cbNew = r.cbNew, !.cbOld = r.cbOld,
                       !.err = e, !.config = config, !.handled = x.handled, !.warned = x.warned,
                       !.thrown = x.thrown]
    /\ UNCHANGED <<walk, uid, vmWatchers, isBeingDestroyed, cell, queue>>

\* the getter throws: get() has no handler, nor has any caller, so every frame is
\* left; popTarget and cleanupDeps are skipped
GetThrow ==
    /\ InGet
    /\ Len(targetStack) < MaxLeak
    /\ stack' = <<>>
    /\ lastReads' = [lastReads EXCEPT ![Top.w] = Top.reads]
    /\ ev' = [Event("throw", Top.w, Top.by) EXCEPT !.reads = Top.reads]
    /\ UNCHANGED <<walk, uid, watcher, subs, target, targetStack, vmWatchers,
                   isBeingDestroyed, cell, queue>>

\* ---------------------------------------------------------------- update, run
\* mutant of update: sync is tested before lazy
update_SyncFirst(W, q, stk, T, w) ==
    IF W[w].sync
    THEN IF W[w].active
         THEN [W |-> W, q |-> q, stk |-> Append(stk, GetFrame(w, "run")),
               T |-> pushTarget(T, w), how |-> "run"]
         ELSE [W |-> W, q |-> q, stk |-> stk, T |-> T, how |-> "run"]
    ELSE IF W[w].lazy
    THEN [W |-> [W EXCEPT ![w].dirty = TRUE], q |-> q, stk |-> stk, T |-> T,
          how |-> "dirty"]
    ELSE [W |-> W, q |-> queueWatcher(q, w), stk |-> stk, T |-> T, how |-> "queue"]

\* mutant of update: a watcher that is not sync is run at once as well
update_RunNow(W, q, stk, T, w) ==
    IF W[w].lazy
    THEN [W |-> [W EXCEPT ![w].dirty = TRUE], q |-> q, stk |-> stk, T |-> T,
          how |-> "dirty"]
    ELSE IF W[w].active
    THEN [W |-> W, q |-> q, stk |-> Append(stk, GetFrame(w, "run")),
          T |-> pushTarget(T, w), how |-> "run"]
    ELSE [W |-> W, q |-> q, stk |-> stk, T |-> T, how |-> "run"]

\* mutant of update: dirty is set whatever the mode
update_DirtyAlways(W, q, stk, T, w) ==
    LET D == [W EXCEPT ![w].dirty = TRUE]
    IN IF W[w].lazy
       THEN [W |-> D, q |-> q, stk |-> stk, T |-> T, how |-> "dirty"]
       ELSE IF W[w].sync
       THEN IF W[w].active
            THEN [W |-> D, q |-> q, stk |-> Append(stk, GetFrame(w, "run")),
                  T |-> pushTarget(T, w), how |-> "run"]
            ELSE [W |-> D, q |-> q, stk |-> stk, T |-> T, how |-> "run"]
       ELSE [W |-> D, q |-> queueWatcher(q, w), stk |-> stk, T |-> T, how |-> "queue"]

\* update() of watcher w: the new watchers, queue and stack, and how it dispatched
update(W, q, stk, T, w) ==
    IF W[w].lazy
    THEN [W |-> [W EXCEPT ![w].dirty = TRUE], q |-> q, stk |-> stk, T |-> T,
          how |-> "dirty"]
    ELSE IF W[w].sync
    THEN IF W[w].active
         THEN [W |-> W, q |-> q, stk |-> Append(stk, GetFrame(w, "run")),
               T |-> pushTarget(T, w), how |-> "run"]
         ELSE [W |-> W, q |-> q, stk |-> stk, T |-> T, how |-> "run"]
    ELSE [W |-> W, q |-> queueWatcher(q, w), stk |-> stk, T |-> T, how |-> "queue"]

\* the reactive setter of cell c: store, then dep.notify() over a copy of subs
SetCell(c, v) ==
    /\ Idle
    /\ v # cell[c]
    /\ cell' = [cell EXCEPT ![c] = v]
    /\ stack' = Settle(<<NotifyFrame(subs[c])>>, queue)
    /\ ev' = Event("none", NoWatcher, "")
    /\ UNCHANGED <<walk, lastReads, uid, watcher, subs, target, targetStack, vmWatchers,
                   isBeingDestroyed, queue>>

\* one round of the loop of Dep.notify(): subs[i].update()
NotifyStep ==
    /\ stack # <<>>
    /\ Top.k = "notify"
    /\ Top.pend # <<>>
    /\ LET w == Head(Top.pend)
           stk == [stack EXCEPT ![Len(stack)].pend = Tail(@)]
           r == update(watcher, queue, stk, [cur |-> target, stk |-> targetStack], w)
       IN /\ watcher' = r.W
          /\ queue' = r.q
          /\ stack' = Settle(r.stk, r.q)
          /\ target' = r.T.cur
          /\ targetStack' = r.T.stk
          /\ ev' = [Event("update", w, r.how) EXCEPT !.pre = w \in Range(queue)]
    /\ UNCHANGED <<walk, lastReads, uid, subs, vmWatchers, isBeingDestroyed, cell>>

\* the scheduler's flush begins: the queue is sorted by id
Flush ==
    /\ Idle
    /\ queue # <<>>
    /\ queue' = SortById(queue, watcher)
    /\ stack' = <<FlushFrame>>
    /\ ev' = [Event("flush", NoWatcher, "") EXCEPT !.pre = queue # SortById(queue, watcher)]
    /\ UNCHANGED <<walk, lastReads, uid, watcher, subs, target, targetStack, vmWatchers,
                   isBeingDestroyed, cell>>

\* one round of the flush: the next watcher leaves the queue and run() is called
FlushStep ==
    /\ stack # <<>>
    /\ Top.k = "flush"
    /\ queue # <<>>
    /\ LET w == Head(queue)
           stk == [stack EXCEPT ![Len(stack)].ran = @ \cup {w}]
           T == [cur |-> target, stk |-> targetStack]
       IN /\ queue' = Tail(queue)
          /\ IF watcher[w].active
             THEN /\ stack' = Append(stk, GetFrame(w, "run"))
                  /\ target' = pushTarget(T, w).cur
                  /\ targetStack' = pushTarget(T, w).stk
             ELSE /\ stack' = Settle(stk, Tail(queue))
                  /\ UNCHANGED <<target, targetStack>>
          /\ ev' = Event("run", w, "flush")
    /\ UNCHANGED <<walk, lastReads, uid, watcher, subs, vmWatchers, isBeingDestroyed, cell>>

\* ---------------------------------------------------------------- evaluate
\* evaluate() of a lazy watcher, called from outside or by the getter of another
\* watcher: enters get()
Evaluate(w) ==
    /\ Idle \/ InGet
    /\ watcher[w].made
    /\ watcher[w].lazy
    /\ ~\E i \in DOMAIN stack : stack[i].k = "get" /\ stack[i].w = w
    /\ LET T == pushTarget([cur |-> target, stk |-> targetStack], w)
       IN /\ target' = T.cur
          /\ targetStack' = T.stk
    /\ stack' = Append(stack, GetFrame(w, "evaluate"))
    /\ ev' = Event("none", NoWatcher, "")
    /\ UNCHANGED <<walk, lastReads, uid, watcher, subs, vmWatchers, isBeingDestroyed,
                   cell, queue>>

\* ---------------------------------------------------------------- depend
\* the while (i--) loop of depend: this.deps[i].depend()
RECURSIVE dependLoop(_, _, _, _)
dependLoop(st, deps, i, tgt) ==
    IF i = 0 THEN st
    ELSE dependLoop(depend(st, deps[i], tgt), deps, i - 1, tgt)

\* depend() of watcher l, called from outside or by a getter
Depend(l) ==
    /\ Idle \/ InGet
    /\ watcher[l].made
    /\ LET st == dependLoop([W |-> watcher, S |-> subs], watcher[l].deps,
                            Len(watcher[l].deps), target)
       IN /\ watcher' = st.W
          /\ subs' = st.S
    /\ stack' = IF InGet /\ target = Top.w
                THEN [stack EXCEPT ![Len(stack)].reads = @ \cup Range(watcher[l].deps)]
                ELSE stack
    /\ ev' = [Event("depend", l, "") EXCEPT !.reads = Range(watcher[l].deps),
                                            !.inner = {w \in Slots : InGet /\ w = Top.w}]
    /\ UNCHANGED <<walk, lastReads, uid, target, targetStack, vmWatchers,
                   isBeingDestroyed, cell, queue>>

\* ---------------------------------------------------------------- teardown
\* the while (i--) loop of teardown
RECURSIVE teardownLoop(_, _, _, _)
teardownLoop(S, deps, i, w) ==
    IF i = 0 THEN S
    ELSE teardownLoop(removeSub(S, deps[i], w), deps, i - 1, w)

\* mutant of teardown: the test of active is missing
teardown_NoGuard(W, S, vmw, destroying, w) ==
    [W |-> [W EXCEPT ![w].active = FALSE],
     S |-> teardownLoop(S, W[w].deps, Len(W[w].deps), w),
     vmw |-> IF ~destroying THEN remove(vmw, w) ELSE vmw,
     removeSubs |-> Range(W[w].deps), unlisted |-> ~destroying]

\* teardown(): the new state, the cells whose removeSub was called, and whether
\* remove(vm._watchers, this) was called
teardown(W, S, vmw, destroying, w) ==
    IF W[w].active
    THEN [W |-> [W EXCEPT ![w].active = FALSE],
          S |-> teardownLoop(S, W[w].deps, Len(W[w].deps), w),
          vmw |-> IF ~destroying THEN remove(vmw, w) ELSE vmw,
          removeSubs |-> Range(W[w].deps), unlisted |-> ~destroying]
    ELSE [W |-> W, S |-> S, vmw |-> vmw, removeSubs |-> {}, unlisted |-> FALSE]

Teardown(w) ==
    /\ Idle
    /\ watcher[w].made
    /\ LET r == teardown(watcher, subs, vmWatchers, isBeingDestroyed, w)
       IN /\ watcher' = r.W
          /\ subs' = r.S
          /\ vmWatchers' = r.vmw
          /\ ev' = [Event("teardown", w, "") EXCEPT
                       !.pre = watcher[w].active, !.reads = r.removeSubs,
                       !.cb = r.unlisted]
    /\ UNCHANGED <<walk, lastReads, uid, target, targetStack, isBeingDestroyed, cell,
                   queue, stack>>

\* vm.$destroy() begins: the context is being discarded
BeginDestroy ==
    /\ Idle
    /\ ~isBeingDestroyed
    /\ isBeingDestroyed' = TRUE
    /\ ev' = Event("none", NoWatcher, "")
    /\ UNCHANGED <<walk, lastReads, uid, watcher, subs, target, targetStack, vmWatchers, cell,
                   queue, stack>>

\* ---------------------------------------------------------------- specification
Next ==
    \/ \E opts \in OptionSets : Construct(opts, SoloWatchers)
    \/ \E c \in Cells : Read(c)
    \/ \E v \in RetVals : GetReturn(v)
    \/ GetThrow
    \/ \E c \in Cells : \E v \in CellVals(c) : SetCell(c, v)
    \/ NotifyStep
    \/ Flush
    \/ FlushStep
    \/ \E w \in Slots : Evaluate(w)
    \/ \E w \in Slots : Teardown(w)
    \/ BeginDestroy

Spec == Init /\ [][Next]_vars

\* two watchers that are neither deep, lazy nor sync
PairOptions == {o \in OptionSets : ~o.deep /\ ~o.lazy /\ ~o.sync}
PairVals == {PrimV(1), ObjV(EmptyObj)}

PairNext ==
    \/ \E opts \in PairOptions : Construct(opts, MaxWatchers)
    \/ \E c \in Cells : Read(c)
    \/ \E v \in PairVals : GetReturn(v)
    \/ GetThrow
    \/ \E c \in Cells : \E v \in CellVals(c) \ {ObjV(EmptyObj)} : SetCell(c, v)
    \/ NotifyStep
    \/ Flush
    \/ FlushStep

PairSpec == Init /\ [][PairNext]_vars

\* two watchers, each lazy or not, evaluated by the constructor or by evaluate(): a
\* getter may call evaluate() and depend() of the other watcher
NestOptions == {o \in OptionSets : ~o.deep /\ ~o.sync}
NestVals == {PrimV(1)}

NestNext ==
    \/ \E opts \in NestOptions : Construct(opts, MaxWatchers)
    \/ \E c \in Cells : Read(c)
    \/ \E v \in NestVals : GetReturn(v)
    \/ GetThrow
    \/ \E w \in Slots : Evaluate(w)
    \/ \E l \in Slots : Depend(l)

NestSpec == Init /\ [][NestNext]_vars

\* one watcher, guarded (user) or not, sync or not, whose callback may throw
UserOptions == [deep : {FALSE}, user : BOOLEAN, lazy : {FALSE}, sync : BOOLEAN]

UserNext ==
    \/ \E opts \in UserOptions : Construct(opts, SoloWatchers)
    \/ \E c \in Cells : Read(c)
    \/ \E v \in RetVals : GetReturn(v)
    \/ \E v \in RetVals : \E e \in Errors : \E config \in Configs :
          GetReturnCbThrows(v, e, config)
    \/ GetThrow
    \/ \E c \in Cells : \E v \in CellVals(c) : SetCell(c, v)
    \/ NotifyStep
    \/ Flush
    \/ FlushStep
    \/ \E w \in Slots : Teardown(w)

UserSpec == Init /\ [][UserNext]_vars

\* traverse() on its own: any heap of MaxNodes objects, any of them instrumented or
\* not, the last of them extensible or not; any value as the root
NodeVals == {PrimV(1)} \cup {ObjV(o) : o \in Nodes}
Heaps ==
    {[val |-> v, keys |-> [o \in Nodes |-> NodeKeys(o)], ob |-> b, ext |-> e] :
        v \in [NodeCells -> NodeVals], b \in [Nodes -> BOOLEAN],
        e \in {f \in [Nodes -> BOOLEAN] : \A o \in Nodes : o < MaxNodes => f[o]}}

TraverseInit ==
    /\ uid = 0
    /\ watcher = [w \in Slots |-> NewWatcher]
    /\ subs = [c \in Cells |-> <<>>]
    /\ target = NoWatcher
    /\ targetStack = <<>>
    /\ vmWatchers = <<>>
    /\ isBeingDestroyed = FALSE
    /\ cell = [c \in Cells |-> PrimV(1)]
    /\ queue = <<>>
    /\ stack = <<>>
    /\ lastReads = [w \in Slots |-> {}]
    /\ walk \in {[NoWalk EXCEPT !.heap = h] : h \in Heaps}
    /\ ev = Event("none", NoWatcher, "")

\* traverse(val)
Traverse(val) ==
    /\ walk' = [walk EXCEPT !.root = val, !.res = traverseAll(val, walk.heap),
                            !.done = TRUE]
    /\ UNCHANGED <<uid, watcher, subs, target, targetStack, vmWatchers,
                   isBeingDestroyed, cell, queue, stack, lastReads, ev>>

TraverseNext == \E val \in NodeVals : Traverse(val)

TraverseSpec == TraverseInit /\ [][TraverseNext]_vars

\* ---------------------------------------------------------------- claims
Returned(w) == ev.op = "return" /\ ev.w = w
Subscribed(w) == {c \in Cells : w \in Range(subs[c])}

\* C1: once get() returns, the watcher's edge set (deps, depIds) is exactly the set
\* of cells whose publisher called addDep on it during that call, whatever happened
\* before the call (evaluations that threw included).
C1_EdgesAreReads ==
    \A w \in Made : Returned(w) =>
        /\ watcher[w].depIds = ev.reads
        /\ Range(watcher[w].deps) = ev.reads

\* C2: a cell read in the previous evaluation and not read in the evaluation that
\* just completed no longer has the watcher in its registry (so that its notify
\* cannot reach the watcher).
C2_DroppedCellUnsubscribed ==
    \A w \in Made : Returned(w) =>
        \A c \in ev.prev \ ev.reads : w \notin Range(subs[c])

\* C9: a watcher with active = false is in no publisher's registry and is not in
\* vm._watchers.
C9_InactiveHasNoEdges ==
    \A w \in Made : ~watcher[w].active =>
        /\ Subscribed(w) = {}
        /\ w \notin Range(vmWatchers)

GetFrameOf(i, w, by) == stack[i].k = "get" /\ stack[i].w = w /\ stack[i].by = by
Evaluating(w, by) == \E i \in DOMAIN stack : GetFrameOf(i, w, by)

\* C3: update() dispatches on the flags: a lazy watcher (sync or not) is only marked
\* dirty, and is never queued nor run; a non-lazy sync watcher is inside run() (its
\* get() entered) when update() is left; any other watcher is in the scheduler's
\* queue and is not evaluated by update().
C3_UpdateDispatch ==
    /\ \A w \in Made : watcher[w].lazy =>
          w \notin Range(queue) /\ ~Evaluating(w, "run")
    /\ \A w \in Made : ev.op = "update" /\ ev.w = w =>
          /\ watcher[w].lazy => watcher[w].dirty /\ ev.by = "dirty"
          /\ ~watcher[w].lazy /\ watcher[w].sync /\ watcher[w].active =>
                /\ stack # <<>> /\ Top = GetFrame(w, "run")
                /\ w \notin Range(queue)
          /\ ~watcher[w].lazy /\ ~watcher[w].sync =>
                /\ w \in Range(queue)
                /\ \A i \in DOMAIN stack : stack[i].k # "get"

C3_Witness ==
    /\ ev.op = "update"
    /\ watcher[ev.w].lazy /\ watcher[ev.w].sync /\ watcher[ev.w].dirty
    /\ watcher[ev.w].value # UndefV

\* C4: when run() has evaluated, the callback is called exactly if the new value
\* differs from the stored one, or is an object, or the watcher is deep; it is called
\* with (new value, previously stored value) and the stored value is then the new
\* one; when it is not called the stored value is unchanged.  Only run() calls it.
C4_RunCallback ==
    \A w \in Made : Returned(w) =>
        /\ ev.cb => ev.by = "run"
        /\ ev.by = "run" =>
              /\ ev.cb <=> (ev.val # ev.stored \/ ev.val \in ObjVals \/ watcher[w].deep)
              /\ ev.cb => /\ ev.cbNew = ev.val
                          /\ ev.cbOld = ev.stored
                          /\ watcher[w].value = ev.val
              /\ ~ev.cb => watcher[w].value = ev.stored

C4_Witness ==
    /\ ev.op = "return" /\ ev.by = "run" /\ ev.cb
    /\ ev.val = ev.stored /\ ev.val \in ObjVals
    /\ ~watcher[ev.w].deep

\* C5: the getter of a lazy watcher is entered neither by the constructor nor by
\* update() (run), only by evaluate(); when evaluate() returns, the stored value is
\* what the evaluation returned and dirty is false.
C5_LazyOnDemand ==
    \A w \in Made : watcher[w].lazy =>
        /\ ~Evaluating(w, "ctor") /\ ~Evaluating(w, "run")
        /\ Returned(w) => /\ ev.by = "evaluate"
                          /\ watcher[w].value = ev.val
                          /\ ~watcher[w].dirty
        /\ (ev.op = "update" /\ ev.w = w) => stack = <<>> \/ Top.k # "get"

C5_Witness ==
    /\ ev.op = "return" /\ ev.by = "evaluate"
    /\ ev.pre /\ ev.stored # UndefV /\ ev.val # ev.stored

\* C6: a non-lazy, non-sync watcher is run by the flush only, never by update(); the
\* queue holds it once however many publishers notified it, and one flush runs it
\* (and so calls its callback) at most once.
C6_OnceInFlush ==
    /\ Cardinality(Range(queue)) = Len(queue)
    /\ \A i \in DOMAIN stack :
          (stack[i].k = "get" /\ stack[i].by = "run"
              /\ ~watcher[stack[i].w].sync) =>
                /\ i > 1
                /\ stack[i - 1].k = "flush"
                /\ stack[i].w \in stack[i - 1].ran
    /\ \A i \in DOMAIN stack :
          stack[i].k = "flush" => stack[i].ran \cap Range(queue) = {}

C6_Witness ==
    /\ ev.op = "update" /\ ev.by = "queue" /\ ev.pre
    /\ Cardinality(Subscribed(ev.w)) > 1
    /\ queue = <<ev.w>>

\* C10: teardown() of a watcher that is already torn down changes nothing (the
\* watcher, the registries, vm._watchers) and calls neither removeSub nor
\* remove(vm._watchers, this).
C10_TeardownTwice ==
    [][\A w \in Slots : (Teardown(w) /\ ~watcher[w].active) =>
          /\ UNCHANGED <<uid, watcher, subs, target, targetStack, vmWatchers,
                         isBeingDestroyed, cell, queue, stack, lastReads>>
          /\ ev'.reads = {}
          /\ ~ev'.cb]_vars

C10_Witness ==
    /\ ev.op = "teardown" /\ ~ev.pre
    /\ watcher[ev.w].deps # <<>>

\* C7: ids are unique and increase in construction order (slots are allocated in
\* construction order), so that a flush, which runs the queue in id order, runs a
\* watcher constructed earlier before one constructed later.
C7_IdOrder ==
    /\ \A a \in Made, b \in Made : a < b => watcher[a].id < watcher[b].id
    /\ \A i \in DOMAIN stack : stack[i].k = "flush" =>
          \A a \in stack[i].ran, b \in Range(queue) : a < b

C7_Witness ==
    /\ ev.op = "flush" /\ ev.pre
    /\ queue = <<1, 2>>
    /\ Subscribed(1) \cap Subscribed(2) # {}

\* the cells of the objects reachable from the objects in os
RECURSIVE ReachCells(_, _)
ReachCells(os, heap) ==
    LET cs == UNION {Range(Keys(ObjV(o))) : o \in os}
        more == os \cup {heap[c].id : c \in {d \in cs : isObject(heap[d])}}
    IN IF more = os THEN cs ELSE ReachCells(more, heap)

\* C8, deep: when get() of a deep watcher returned an object, the watcher has an edge
\* to, and is in the registry of, every property of every object reachable from it.
C8_DeepEdges ==
    \A w \in Made : (Returned(w) /\ watcher[w].deep /\ isObject(ev.val)) =>
        /\ ReachCells({ev.val.id}, cell) \subseteq watcher[w].depIds
        /\ ReachCells({ev.val.id}, cell) \subseteq Subscribed(w)

\* C8, not deep: when get() of a watcher that is not deep returned an object and the
\* getter read the top-level property vm.a at most, no nested property (cells 2..)
\* has the watcher in its registry, so that a nested mutation does not reach it.
C8_ShallowEdges ==
    \A w \in Made : (Returned(w) /\ ~watcher[w].deep /\ isObject(ev.val)
                        /\ ev.reads \subseteq {1}) =>
        Subscribed(w) \subseteq {1}

\* C8: a deep watcher is invalidated by a nested mutation of the object it returned,
\* a watcher that is not deep is not.
C8_DeepAndShallow == C8_DeepEdges /\ C8_ShallowEdges

\* C11: once teardown() has completed on a watcher, no later step (a call of
\* update(), run(), evaluate() or addDep() on it) adds it to a registry or to the
\* scheduler's queue, enters its getter, fires its callback or changes its fields.
C11_InactiveIsInert ==
    [][\A w \in Slots : (watcher[w].made /\ ~watcher[w].active) =>
          /\ \A c \in Cells : w \in Range(subs'[c]) => w \in Range(subs[c])
          /\ w \in Range(queue') => w \in Range(queue)
          /\ \A i \in DOMAIN stack' : ~(stack'[i].k = "get" /\ stack'[i].w = w)
          /\ ~(ev'.op = "return" /\ ev'.w = w /\ ev'.cb)
          /\ watcher'[w] = watcher[w]]_vars

\* the get() activations on the call stack
GetDepth(stk) == Cardinality({i \in DOMAIN stk : stk[i].k = "get"})

RECURSIVE popTargets(_, _)
popTargets(T, n) == IF n = 0 THEN T ELSE popTargets(popTarget(T), n - 1)

\* C13: every pushTarget of get() is matched by one popTarget before control leaves
\* get(), by a return or by a throw: a step that leaves n activations of get() leaves
\* the evaluation context (Dep.target, targetStack) popped n times.
C13_PushPopPaired ==
    [][GetDepth(stack') < GetDepth(stack) =>
          [cur |-> target', stk |-> targetStack'] =
              popTargets([cur |-> target, stk |-> targetStack],
                         GetDepth(stack) - GetDepth(stack'))]_vars

\* C14: when the getter of an active watcher has thrown, the watcher's current edges
\* (deps, depIds) describe the same cells and agree with the registries: the cells
\* whose registry holds the watcher are exactly its depIds.
C14_FailedGetKeepsEdges ==
    \A w \in Made : (ev.op = "throw" /\ ev.w = w /\ watcher[w].active) =>
        /\ Range(watcher[w].deps) = watcher[w].depIds
        /\ Subscribed(w) = watcher[w].depIds

\* C20: ids and references describe the same publishers at all times; and whenever
\* no evaluation is in progress, an active watcher is in the registry of exactly the
\* cells of its depIds, and its staging set and sequence are empty.
C20_TwoSidedEdges ==
    /\ \A w \in Made : /\ Range(watcher[w].deps) = watcher[w].depIds
                       /\ Range(watcher[w].newDeps) = watcher[w].newDepIds
    /\ GetDepth(stack) = 0 =>
          \A w \in Made : watcher[w].active =>
              /\ Subscribed(w) = watcher[w].depIds
              /\ watcher[w].newDepIds = {}
              /\ watcher[w].newDeps = <<>>

EvaluateReturned(w) == ev.op = "return" /\ ev.w = w /\ ev.by = "evaluate"

\* C19, as claimed: a dirty watcher is lazy; a watcher is dirty only between an
\* update() and the next evaluate(), so that a watcher that is dirty after a step was
\* dirty before it or the step was its update(); evaluate() leaves dirty false.
C19_DirtyOnlyByUpdate ==
    [][\A w \in Slots :
          /\ watcher'[w].dirty => watcher'[w].lazy
          /\ (watcher'[w].dirty /\ ~(watcher[w].made /\ watcher[w].dirty)) =>
                (ev'.op = "update" /\ ev'.w = w)
          /\ EvaluateReturned(w)' => ~watcher'[w].dirty]_vars

\* C19, amended: a dirty watcher is lazy; a lazy watcher is dirty from its
\* construction or an update() until the next evaluate() that returns: dirty
\* becomes true only by the constructor (of a lazy watcher) or by update(), becomes
\* false only by the return of evaluate(), and is false when evaluate() returns.
C19_DirtyLazyOnly ==
    [][\A w \in Slots :
          /\ watcher'[w].dirty => watcher'[w].lazy
          /\ (watcher'[w].dirty /\ ~(watcher[w].made /\ watcher[w].dirty)) =>
                \/ ~watcher[w].made /\ watcher'[w].lazy
                \/ ev'.op = "update" /\ ev'.w = w
          /\ (watcher[w].dirty /\ ~watcher'[w].dirty) => EvaluateReturned(w)'
          /\ EvaluateReturned(w)' => ~watcher'[w].dirty]_vars

C19_Witness ==
    /\ ev.op = "update" /\ ev.by = "dirty"
    /\ watcher[ev.w].lazy /\ ~watcher[ev.w].sync /\ watcher[ev.w].dirty
    /\ watcher[ev.w].deps # <<>>

\* the objects the properties of object o refer to
Children(heap, o) ==
    {heap.val[c].id : c \in {d \in Range(heap.keys[o]) : isObject(heap.val[d])}}

\* the uninstrumented objects reachable from those of os through uninstrumented ones
RECURSIVE PlainClosure(_, _)
PlainClosure(heap, os) ==
    LET more == os \cup {p \in UNION {Children(heap, o) : o \in os} : ~heap.ob[p]}
    IN IF more = os THEN os ELSE PlainClosure(heap, more)

EveryCycleInstrumented(heap) ==
    \A o \in DOMAIN heap.ob : ~heap.ob[o] =>
        o \notin PlainClosure(heap, {p \in Children(heap, o) : ~heap.ob[p]})

\* the objects a walk from those of os arrives at: it enters extensible objects only
RECURSIVE WalkClosure(_, _)
WalkClosure(heap, os) ==
    LET more == os \cup UNION {Children(heap, o) : o \in {x \in os : heap.ext[x]}}
    IN IF more = os THEN os ELSE WalkClosure(heap, more)

Arrived(heap, root) == IF isObject(root) THEN WalkClosure(heap, {root.id}) ELSE {}

Count(seq, x) == Cardinality({i \in DOMAIN seq : seq[i] = x})

\* C15: in a heap in which every cycle passes through an instrumented object,
\* traverse() terminates (the call stack does not overflow); the properties of an
\* instrumented object are iterated, and each of them read, exactly once if the walk
\* arrives at the object and it is extensible, however many paths or cycles lead to
\* it, and never otherwise; what is iterated is an extensible object, never a
\* primitive or a non-extensible value.
C15_TraverseOnce ==
    (walk.done /\ EveryCycleInstrumented(walk.heap)) =>
        /\ ~walk.res.over
        /\ \A o \in Nodes : walk.heap.ob[o] =>
              LET n == IF o \in Arrived(walk.heap, walk.root) /\ walk.heap.ext[o]
                       THEN 1 ELSE 0
              IN /\ Count(walk.res.walked, ObjV(o)) = n
                 /\ \A c \in Range(walk.heap.keys[o]) : Count(walk.res.touched, c) = n
        /\ \A i \in DOMAIN walk.res.walked :
              /\ isObject(walk.res.walked[i])
              /\ walk.heap.ext[walk.res.walked[i].id]

\* object 3 is instrumented, lies on a cycle through 1 and is referred to by 1 and by
\* the uninstrumented 2; the walk from 1 iterates it once
C15_Witness ==
    /\ walk.done /\ walk.root = ObjV(1)
    /\ EveryCycleInstrumented(walk.heap)
    /\ walk.heap.ob[3] /\ ~walk.heap.ob[2] /\ ~walk.heap.ob[1]
    /\ \A o \in Nodes : walk.heap.ext[o]
    /\ Children(walk.heap, 1) = {2, 3}
    /\ Children(walk.heap, 2) = {3}
    /\ Children(walk.heap, 3) = {1}
    /\ Count(walk.res.walked, ObjV(3)) = 1
    /\ Count(walk.res.walked, ObjV(1)) = 2

CbThrew == ev.op = "return" /\ ev.err # NoError
Guarded == watcher[ev.w].user
HasHandler == ev.config.errorHandler

\* C12, as claimed: when the callback throws e inside run(), a guarded watcher with
\* an error handler configured has the handler called with (e, vm) and run() returns;
\* a guarded watcher without a handler has a diagnostic emitted and e re-thrown; for
\* an unguarded watcher e propagates with neither handler nor diagnostic; in every
\* case the stored value is already the new value.
C12_CallbackError ==
    CbThrew =>
        /\ watcher[ev.w].value = ev.val
        /\ (Guarded /\ HasHandler) =>
              ev.handled = <<ev.err, "vm">> /\ ev.thrown = NoError /\ ~ev.warned
        /\ (Guarded /\ ~HasHandler) =>
              ev.warned /\ ev.thrown = ev.err /\ ev.handled = NoCall
        /\ ~Guarded => ev.thrown = ev.err /\ ev.handled = NoCall /\ ~ev.warned
        /\ ev.thrown # NoError => stack = <<>>

\* C12, amended: as claimed, except that the guarded watcher without a handler
\* emits the diagnostic only in a build that is not the production build; it
\* re-throws e in either build.
C12_CallbackErrorByBuild ==
    CbThrew =>
        /\ watcher[ev.w].value = ev.val
        /\ (Guarded /\ HasHandler) =>
              ev.handled = <<ev.err, "vm">> /\ ev.thrown = NoError /\ ~ev.warned
        /\ (Guarded /\ ~HasHandler) =>
              /\ ev.warned <=> ~ev.config.production
              /\ ev.thrown = ev.err /\ ev.handled = NoCall
        /\ ~Guarded => ev.thrown = ev.err /\ ev.handled = NoCall /\ ~ev.warned
        /\ ev.thrown # NoError => stack = <<>>

C12_Witness ==
    /\ CbThrew /\ Guarded /\ ~HasHandler
    /\ ev.warned /\ ev.thrown = "e2"
    /\ ev.stored # ev.val /\ watcher[ev.w].value = ev.val
    /\ ~watcher[ev.w].sync /\ watcher[ev.w].deps # <<>>

\* C16: under re-entrant evaluation (the getter of watcher A calls evaluate() of
\* another watcher B, whose get() completes), the cells read while B's getter runs
\* become edges of B only and the cells read by A's getter edges of A only: when B
\* returns into A, B's edge set is what B read, the current subscriber is A again and
\* A's staging set is what A has read so far; when A returns, A's edge set is what A
\* read, and the current subscriber is what it was before A started.
C16_NestedAttribution ==
    /\ \A b \in Made : (Returned(b) /\ InGet /\ b \in Top.ran) =>
          /\ watcher[b].depIds = ev.reads
          /\ Subscribed(b) = ev.reads
          /\ target = Top.w
          /\ watcher[Top.w].newDepIds = Top.reads
    /\ \A a \in Made : (Returned(a) /\ ev.inner # {} /\ watcher[a].active) =>
          /\ watcher[a].depIds = ev.reads
          /\ Subscribed(a) = ev.reads
          /\ Idle => target = NoWatcher

\* C17: depend() of L while O # L is the watcher being evaluated adds every cell of
\* L's deps to O's staging set, and O is then in the registry of each of them; it does
\* not enter L's getter and leaves L's fields unchanged; when O's get() has
\* returned, O's edge set includes the cells so added and O is in their registries;
\* with no get() in progress depend() changes nothing.
C17_DependForwards ==
    [][/\ \A l \in Slots : Depend(l) =>
             /\ GetDepth(stack) = 0 =>
                   UNCHANGED <<uid, watcher, subs, target, targetStack, vmWatchers,
                               isBeingDestroyed, cell, queue, stack, lastReads>>
             /\ (InGet /\ Top.w # l) =>
                   /\ watcher'[Top.w].newDepIds =
                         watcher[Top.w].newDepIds \cup Range(watcher[l].deps)
                   /\ Range(watcher[l].deps) \subseteq {c \in Cells : Top.w \in Range(subs'[c])}
                   /\ watcher'[l] = watcher[l]
                   /\ GetDepth(stack') = GetDepth(stack)
       /\ \A o \in Slots : (Returned(o)' /\ watcher'[o].active) =>
             /\ ev'.reads \subseteq watcher'[o].depIds
             /\ ev'.reads \subseteq {c \in Cells : o \in Range(subs'[c])}]_vars

NoDuplicates(seq) == Cardinality(Range(seq)) = Len(seq)

\* C18: no cell occurs twice in a watcher's deps or in its newDeps, and no registry
\* holds a watcher twice (so that a cell read several times in one evaluation, or
\* already subscribed from the evaluation before, is subscribed once).
C18_NoDuplicateEdges ==
    /\ \A w \in Made : NoDuplicates(watcher[w].deps) /\ NoDuplicates(watcher[w].newDeps)
    /\ \A c \in Cells : NoDuplicates(subs[c])

\* a cell subscribed in the evaluation before has been read again, with the getter
\* still running
C18_Witness ==
    /\ InGet
    /\ \E c \in Top.reads : /\ c \in watcher[Top.w].depIds
                          /\ c \in watcher[Top.w].newDepIds
                          /\ Count(subs[c], Top.w) = 1
    /\ Len(watcher[Top.w].newDeps) = NumCells

====
